---- MODULE Spec2Model ----
(***************************************************************************)
(* A model of common/channelconfig/bundlesource.go: BundleSource, the      *)
(* holder of the current configuration Bundle behind a sync/atomic.Value,  *)
(* with writers calling Update and readers calling StableBundle and the    *)
(* pass-through accessors.                                                 *)
(*                                                                         *)
(* A *Bundle is a pointer: 0 is the nil pointer, 1..NumBundles are the     *)
(* Bundles the external builder has constructed.  heap maps a pointer to   *)
(* the Bundle it points to.  Every component of a Bundle is tagged with    *)
(* the Bundle that owns it, so that the Bundle a result was read from can  *)
(* be told from the result.                                                *)
(***************************************************************************)
EXTENDS Naturals, Sequences, FiniteSets

NumBundles == 2
NumWriters == 2
NumReaders == 1
MaxStores == 2
MaxSeqStores == 3

NilPtr == 0
Bundles == 1..NumBundles
Ptrs == Bundles \cup {NilPtr}
Writers == 1..NumWriters
Readers == 1..NumReaders

\* A nil result of rootConfig.Orderer(), Consortiums() or Application().
NilView == <<"nil", 0>>
\* The zero atomic.Value: no type, no value (a nil interface).
NoValue == [typ |-> "nil", ptr |-> NilPtr]
\* A conversion that turns a nil *Bundle into a nil interface.
IfaceNilAware(p) ==
  IF p = NilPtr THEN NoValue ELSE [typ |-> "*Bundle", ptr |-> p]

\* The interface value a *Bundle converts to when passed to Store: the
\* dynamic type is *Bundle whatever the pointer, nil included.
Iface(p) == [typ |-> "*Bundle", ptr |-> p]

Accessors ==
  {"PolicyManager", "MSPManager", "ChannelConfig", "OrdererConfig",
   "ConsortiumsConfig", "ApplicationConfig", "ConfigtxManager"}
Ops == Accessors \cup {"StableBundle"}

VARIABLES
  heap,        \* pointer -> the Bundle it points to
  bundle,      \* BundleSource.bundle, the atomic.Value
  newArg,      \* the argument NewBundleSource was called with
  newOutcome,  \* "none" | "returned" | "panicked"
  storeLog,    \* the pointers stored into bundle, in the order applied
  wpc,         \* writer: "idle" | "store" | "returned"
  warg,        \* writer: the argument of its Update call
  wres,        \* writer: how its last Update ended: "none" | "ok" | "panicked"
  rpc,         \* reader: "idle" | "called" | "done" | "panicked"
  rop,         \* reader: the method it calls
  rh,          \* reader: the *Bundle its call loaded
  rres,        \* reader: the result of its call
  rfloor,      \* reader: the number of stores applied when its call started
  rver,        \* reader: the number of stores applied when its call loaded
  rhread,      \* reader: the last read made through the handle it holds
  rprev        \* reader: the call it completed before the current one

vars ==
  <<heap, bundle, newArg, newOutcome, storeLog, wpc, warg, wres,
    rpc, rop, rh, rres, rfloor, rver, rhread, rprev>>
writerVars == <<wpc, warg, wres>>
readerVars == <<rpc, rop, rh, rres, rfloor, rver, rhread, rprev>>
sourceVars == <<bundle, newArg, newOutcome, storeLog>>

(***************************************************************************)
(* The Bundles, as the external builder constructs them.                   *)
(***************************************************************************)
\* Which optional sub-views Bundle b has: bit 0 the orderer view, bit 1 the
\* consortiums view, bit 2 the application view.
ViewMask(b) == (5 * b) % 8
HasOrderer(b) == ViewMask(b) % 2 = 1
HasConsortiums(b) == (ViewMask(b) \div 2) % 2 = 1
HasApplication(b) == (ViewMask(b) \div 4) % 2 = 1

BuildBundle(b) ==
  [policyManager |-> <<"policyManager", b>>,
   mspManager |-> <<"mspManager", b>>,
   rootConfig |->
     [channel |-> <<"channel", b>>,
      orderer |-> IF HasOrderer(b) THEN <<"orderer", b>> ELSE NilView,
      consortiums |-> IF HasConsortiums(b) THEN <<"consortiums", b>> ELSE NilView,
      application |-> IF HasApplication(b) THEN <<"application", b>> ELSE NilView],
   configtxManager |-> <<"configtxManager", b>>]

\* The Bundle that owns a component.
Owner(c) == c[2]

(***************************************************************************)
(* sync/atomic.Value                                                       *)
(***************************************************************************)
\* Store panics on a nil interface and on a type other than the one stored
\* first; a nil *Bundle is neither.
StoreFaults(val) ==
  \/ val = NoValue
  \/ bundle.typ # "nil" /\ bundle.typ # val.typ

\* A store that is not atomic: the slot is left with a mix of the old and
\* the new word.
StoreTorn(val) ==
  IF StoreFaults(val) THEN bundle
  ELSE [typ |-> val.typ, ptr |-> (bundle.ptr + val.ptr + 1) % (NumBundles + 1)]

\* A store that only takes effect on an empty slot: the first value stays.
StoreKeepFirst(val) ==
  IF StoreFaults(val) \/ bundle.typ # "nil" THEN bundle ELSE val

\* A store that refuses a value the slot has held before, as a slot that
\* keeps a record of its past values would.
StoreNoRollback(val) ==
  IF StoreFaults(val) \/ \E i \in 1..Len(storeLog) : storeLog[i] = val.ptr
    THEN bundle ELSE val

\* The value of the atomic.Value after Store(val).
Store(val) == IF StoreFaults(val) THEN bundle ELSE val

\* A load that may see the value of the store before the most recent one.
LoadStale ==
  IF Len(storeLog) > 1 THEN Iface(storeLog[Len(storeLog) - 1]) ELSE bundle

\* A load that, once a third store has been applied, sees the value of the
\* first store again.
LoadRegress ==
  IF Len(storeLog) > 2 THEN Iface(storeLog[1]) ELSE bundle

\* Load returns the value of the most recent Store.
Load == bundle

(***************************************************************************)
(* BundleSource                                                            *)
(***************************************************************************)
\* What the type assertion .(*Bundle) does to a loaded value.
AssertFaults(val) == val.typ # "*Bundle"

\* A BundleSource that keeps handing out the Bundle it was constructed with.
StableBundleCached == newArg

\* bs.bundle.Load().(*Bundle)
StableBundle == Load.ptr

\* What each accessor makes of the Bundle bnd that StableBundle() points to.
PolicyManagerOf(bnd) == <<bnd.policyManager>>
MSPManagerOf(bnd) == <<bnd.mspManager>>
ChannelConfigOf(bnd) == <<bnd.rootConfig.channel>>
\* An OrdererConfig that reports the view as present whatever it got.
OrdererConfigAlwaysExists(bnd) ==
  LET result == bnd.rootConfig.orderer IN <<result, TRUE>>

OrdererConfigOf(bnd) ==
  LET result == bnd.rootConfig.orderer IN <<result, result # NilView>>
\* A ConsortiumsConfig that loads the slot a second time for the exists
\* flag and gets the Bundle of the store before the most recent one.
ConsortiumsConfigTwoLoads(bnd) ==
  LET n == Len(storeLog)
      other == IF n > 1 /\ storeLog[n - 1] # NilPtr
                 THEN heap[storeLog[n - 1]] ELSE bnd
  IN  <<bnd.rootConfig.consortiums, other.rootConfig.consortiums # NilView>>

ConsortiumsConfigOf(bnd) ==
  LET result == bnd.rootConfig.consortiums IN <<result, result # NilView>>
ApplicationConfigOf(bnd) ==
  LET result == bnd.rootConfig.application IN <<result, result # NilView>>
ConfigtxManagerOf(bnd) == <<bnd.configtxManager>>

Deref(a, bnd) ==
  CASE a = "PolicyManager" -> PolicyManagerOf(bnd)
    [] a = "MSPManager" -> MSPManagerOf(bnd)
    [] a = "ChannelConfig" -> ChannelConfigOf(bnd)
    [] a = "OrdererConfig" -> OrdererConfigOf(bnd)
    [] a = "ConsortiumsConfig" -> ConsortiumsConfigOf(bnd)
    [] a = "ApplicationConfig" -> ApplicationConfigOf(bnd)
    [] a = "ConfigtxManager" -> ConfigtxManagerOf(bnd)

NoResult == <<>>
NoRead == [acc |-> "none", res |-> NoResult, ver |-> 0]
NoPrev == [op |-> "none", res |-> NoResult, ver |-> 0]

Init ==
  /\ heap = [b \in Bundles |-> BuildBundle(b)]
  /\ bundle = NoValue
  /\ newArg = NilPtr
  /\ newOutcome = "none"
  /\ storeLog = <<>>
  /\ wpc = [w \in Writers |-> "idle"]
  /\ warg = [w \in Writers |-> NilPtr]
  /\ wres = [w \in Writers |-> "none"]
  /\ rpc = [r \in Readers |-> "idle"]
  /\ rop = [r \in Readers |-> "none"]
  /\ rh = [r \in Readers |-> NilPtr]
  /\ rres = [r \in Readers |-> NoResult]
  /\ rfloor = [r \in Readers |-> 0]
  /\ rver = [r \in Readers |-> 0]
  /\ rhread = [r \in Readers |-> NoRead]
  /\ rprev = [r \in Readers |-> NoPrev]

\* NewBundleSource(p): bs := &BundleSource{}; bs.bundle.Store(p); return bs
NewBundleSource(p) ==
  /\ newOutcome = "none"
  /\ newArg' = p
  /\ bundle' = Store(Iface(p))
  /\ IF StoreFaults(Iface(p))
       THEN newOutcome' = "panicked" /\ UNCHANGED storeLog
       ELSE newOutcome' = "returned" /\ storeLog' = Append(storeLog, p)
  /\ UNCHANGED <<heap, writerVars, readerVars>>

\* A writer calls bs.Update(p).
UpdateCall(w, p) ==
  /\ newOutcome = "returned"
  /\ wpc[w] \in {"idle", "returned"}
  /\ Len(storeLog) + Cardinality({x \in Writers : wpc[x] = "store"}) < MaxStores + 1
  /\ wpc' = [wpc EXCEPT ![w] = "store"]
  /\ warg' = [warg EXCEPT ![w] = p]
  /\ wres' = [wres EXCEPT ![w] = "none"]
  /\ UNCHANGED <<heap, sourceVars, readerVars>>

\* An Update that overwrites the Bundle the slot points to instead of
\* replacing the pointer.
UpdateInPlace(w) ==
  /\ wpc[w] = "store"
  /\ IF bundle.ptr # NilPtr /\ warg[w] # NilPtr
       THEN heap' = [heap EXCEPT ![bundle.ptr] = heap[warg[w]]] /\ UNCHANGED bundle
       ELSE bundle' = Store(Iface(warg[w])) /\ UNCHANGED heap
  /\ wres' = [wres EXCEPT ![w] = "ok"]
  /\ storeLog' = Append(storeLog, warg[w])
  /\ wpc' = [wpc EXCEPT ![w] = "returned"]
  /\ UNCHANGED <<newArg, newOutcome, warg, readerVars>>

\* An Update whose store is lost when another writer's Update has
\* completed before it, as with a compare-and-swap that is not retried.
UpdateLost(w) ==
  /\ wpc[w] = "store"
  /\ IF \E x \in Writers \ {w} : wpc[x] = "returned"
       THEN UNCHANGED bundle
       ELSE bundle' = Store(Iface(warg[w]))
  /\ wres' = [wres EXCEPT ![w] = "ok"]
  /\ storeLog' = Append(storeLog, warg[w])
  /\ wpc' = [wpc EXCEPT ![w] = "returned"]
  /\ UNCHANGED <<heap, newArg, newOutcome, warg, readerVars>>

\* The body of Update: bs.bundle.Store(newBundle), and the return.
Update(w) ==
  /\ wpc[w] = "store"
  /\ bundle' = Store(Iface(warg[w]))
  /\ IF StoreFaults(Iface(warg[w]))
       THEN wres' = [wres EXCEPT ![w] = "panicked"] /\ UNCHANGED storeLog
       ELSE /\ wres' = [wres EXCEPT ![w] = "ok"]
            /\ storeLog' = Append(storeLog, warg[w])
  /\ wpc' = [wpc EXCEPT ![w] = "returned"]
  /\ UNCHANGED <<heap, newArg, newOutcome, warg, readerVars>>

\* A reader calls method op of the BundleSource.  What it holds from the
\* call before becomes rprev.  A reader whose call panicked goes on with
\* its next call, as a goroutine whose caller recovers does.
Call(r, op) ==
  /\ newOutcome = "returned"
  /\ rpc[r] \in {"idle", "done", "panicked"}
  /\ rpc' = [rpc EXCEPT ![r] = "called"]
  /\ rop' = [rop EXCEPT ![r] = op]
  /\ rfloor' = [rfloor EXCEPT ![r] = Len(storeLog)]
  /\ rprev' = [rprev EXCEPT ![r] =
                 IF rpc[r] = "done"
                   THEN [op |-> rop[r], res |-> rres[r], ver |-> rver[r]]
                   ELSE NoPrev]
  /\ rhread' = [rhread EXCEPT ![r] = NoRead]
  /\ UNCHANGED <<heap, sourceVars, writerVars, rh, rres, rver>>

\* The load every method starts with, and what the method makes of it.
Finish(r, h, res) ==
  /\ rh' = [rh EXCEPT ![r] = h]
  /\ rver' = [rver EXCEPT ![r] = Len(storeLog)]
  /\ IF AssertFaults(Load) \/ res = NoResult
       THEN rpc' = [rpc EXCEPT ![r] = "panicked"] /\ rres' = [rres EXCEPT ![r] = NoResult]
       ELSE rpc' = [rpc EXCEPT ![r] = "done"] /\ rres' = [rres EXCEPT ![r] = res]
  /\ UNCHANGED <<heap, sourceVars, writerVars, rop, rfloor, rhread, rprev>>

\* A StableBundle() that waits while a writer is inside Update, as it
\* would behind a lock the writers hold.
StableBundleRetLocked(r) ==
  /\ \A w \in Writers : wpc[w] # "store"
  /\ rpc[r] = "called" /\ rop[r] = "StableBundle"
  /\ Finish(r, StableBundle, <<"handle", StableBundle>>)

\* bs.StableBundle() returns the pointer loaded, nil or not.
StableBundleRet(r) ==
  /\ rpc[r] = "called" /\ rop[r] = "StableBundle"
  /\ Finish(r, StableBundle, <<"handle", StableBundle>>)

\* An accessor dereferences the pointer StableBundle returned: a nil
\* pointer dereference panics.
AccessorResult(a, h) == IF h = NilPtr THEN NoResult ELSE Deref(a, heap[h])

PolicyManager(r) ==
  /\ rpc[r] = "called" /\ rop[r] = "PolicyManager"
  /\ Finish(r, StableBundle, AccessorResult("PolicyManager", StableBundle))

MSPManager(r) ==
  /\ rpc[r] = "called" /\ rop[r] = "MSPManager"
  /\ Finish(r, StableBundle, AccessorResult("MSPManager", StableBundle))

ChannelConfig(r) ==
  /\ rpc[r] = "called" /\ rop[r] = "ChannelConfig"
  /\ Finish(r, StableBundle, AccessorResult("ChannelConfig", StableBundle))

OrdererConfig(r) ==
  /\ rpc[r] = "called" /\ rop[r] = "OrdererConfig"
  /\ Finish(r, StableBundle, AccessorResult("OrdererConfig", StableBundle))

ConsortiumsConfig(r) ==
  /\ rpc[r] = "called" /\ rop[r] = "ConsortiumsConfig"
  /\ Finish(r, StableBundle, AccessorResult("ConsortiumsConfig", StableBundle))

ApplicationConfig(r) ==
  /\ rpc[r] = "called" /\ rop[r] = "ApplicationConfig"
  /\ Finish(r, StableBundle, AccessorResult("ApplicationConfig", StableBundle))

ConfigtxManager(r) ==
  /\ rpc[r] = "called" /\ rop[r] = "ConfigtxManager"
  /\ Finish(r, StableBundle, AccessorResult("ConfigtxManager", StableBundle))

\* A reader that holds the handle StableBundle returned reads component a
\* through it.
HandleRead(r, a) ==
  /\ rpc[r] = "done" /\ rop[r] = "StableBundle"
  /\ IF rh[r] = NilPtr
       THEN rpc' = [rpc EXCEPT ![r] = "panicked"] /\ UNCHANGED rhread
       ELSE /\ rhread' = [rhread EXCEPT ![r] =
                            [acc |-> a, res |-> Deref(a, heap[rh[r]]), ver |-> Len(storeLog)]]
            /\ UNCHANGED rpc
  /\ UNCHANGED <<heap, sourceVars, writerVars, rop, rh, rres, rfloor, rver, rprev>>

WriterStep(w) == (\E p \in Ptrs : UpdateCall(w, p)) \/ Update(w)

\* The step that completes the call a reader is in.
Return(r) ==
  \/ StableBundleRet(r)
  \/ PolicyManager(r)
  \/ MSPManager(r)
  \/ ChannelConfig(r)
  \/ OrdererConfig(r)
  \/ ConsortiumsConfig(r)
  \/ ApplicationConfig(r)
  \/ ConfigtxManager(r)

ReaderStep(r) ==
  \/ \E op \in Ops : Call(r, op)
  \/ Return(r)
  \/ \E a \in Accessors : HandleRead(r, a)

Next ==
  \/ \E p \in Ptrs : NewBundleSource(p)
  \/ \E w \in Writers : WriterStep(w)
  \/ \E r \in Readers : ReaderStep(r)

Spec == Init /\ [][Next]_vars

\* Every goroutine that can run is eventually run: a call that has started
\* and can take its next step takes it.
FairSpec ==
  /\ Spec
  /\ \A w \in Writers : WF_vars(Update(w))
  /\ \A r \in Readers : WF_vars(Return(r))

\* One writer calls bs.Update(p), one call after the other, up to
\* MaxSeqStores times.
UpdateCallSeq(p) ==
  /\ newOutcome = "returned"
  /\ wpc[1] \in {"idle", "returned"}
  /\ Len(storeLog) < MaxSeqStores + 1
  /\ wpc' = [wpc EXCEPT ![1] = "store"]
  /\ warg' = [warg EXCEPT ![1] = p]
  /\ wres' = [wres EXCEPT ![1] = "none"]
  /\ UNCHANGED <<heap, sourceVars, readerVars>>

\* The source with a single writer whose Updates follow one another, and
\* the readers beside it.
SeqNext ==
  \/ \E p \in Ptrs : NewBundleSource(p)
  \/ \E p \in Ptrs : UpdateCallSeq(p)
  \/ Update(1)
  \/ \E r \in Readers : ReaderStep(r)

SeqSpec == Init /\ [][SeqNext]_vars

(***************************************************************************)
(* The properties.  The Bundle in the slot when a call loaded is           *)
(* storeLog[rver[r]]; what the builder made of it is BuildBundle of it.    *)
(***************************************************************************)
HoldsHandle(r) == rpc[r] = "done" /\ rop[r] = "StableBundle"
AccessorDone(r) == rpc[r] = "done" /\ rop[r] \in Accessors
Published == {storeLog[i] : i \in 1..Len(storeLog)}

\* C1: every result a reader reads through the handle that one
\* StableBundle() call returned is the component of the one Bundle that was
\* in the slot when that call loaded, whatever Updates have been applied
\* between the load and the read.
HandleReadsOneSnapshot ==
  \A r \in Readers :
    (HoldsHandle(r) /\ rhread[r].acc # "none") =>
      /\ rh[r] = storeLog[rver[r]]
      /\ rhread[r].res = Deref(rhread[r].acc, BuildBundle(storeLog[rver[r]]))

\* A reader reads through its handle after a later Update has put another
\* Bundle in the slot.
HandleReadAfterUpdate ==
  \E r \in Readers :
    /\ HoldsHandle(r) /\ rhread[r].acc # "none"
    /\ rhread[r].ver > rver[r]
    /\ storeLog[rhread[r].ver] # rh[r]
    /\ bundle.ptr # rh[r]

\* C2: every pointer StableBundle() returns is the argument of
\* NewBundleSource or of an Update call, never a pointer nobody stored.
StableBundleReturnsPublished ==
  \A r \in Readers : HoldsHandle(r) => rres[r][2] \in Published

\* A reader gets the argument of an Update from StableBundle() while
\* another Update is in flight.
StableBundleDuringUpdate ==
  \E r \in Readers :
    /\ HoldsHandle(r) /\ rver[r] > 1 /\ rres[r][2] = storeLog[rver[r]]
    /\ \E w \in Writers : wpc[w] = "store"

\* C3: a StableBundle() call that starts once rfloor stores have been
\* applied (those of every Update that has returned among them) returns
\* the pointer of store number rfloor or of a later store, never one that
\* only earlier stores put in the slot.
StableBundleSeesReturnedUpdate ==
  \A r \in Readers :
    HoldsHandle(r) =>
      \E i \in rfloor[r]..rver[r] : storeLog[i] = rres[r][2]

\* A StableBundle() call that started after an Update had returned gets
\* the Bundle a still later Update stored.
StableBundleSeesLaterUpdate ==
  \E r \in Readers :
    /\ HoldsHandle(r) /\ rfloor[r] > 1 /\ rver[r] > rfloor[r]
    /\ rres[r][2] = storeLog[rver[r]]
    /\ rres[r][2] # storeLog[rfloor[r]]

\* C4: two accessors a reader calls back to back load the slot
\* independently: when the slot held different Bundles at the two loads,
\* the two results are components of those two different Bundles.
AccessorsLoadIndependently ==
  \A r \in Readers :
    (AccessorDone(r) /\ rprev[r].op \in Accessors) =>
      LET first == rprev[r].res[1]
          second == rres[r][1]
          b1 == storeLog[rprev[r].ver]
          b2 == storeLog[rver[r]]
      IN  (b1 # b2 /\ first # NilView /\ second # NilView) =>
            /\ Owner(first) = b1
            /\ Owner(second) = b2
            /\ Owner(first) # Owner(second)

\* OrdererConfig() then MSPManager() by one reader, with results from two
\* different Bundles.
AccessorsFromTwoSnapshots ==
  \E r \in Readers :
    /\ AccessorDone(r) /\ rop[r] = "MSPManager"
    /\ rprev[r].op = "OrdererConfig"
    /\ rprev[r].res[1] # NilView
    /\ Owner(rprev[r].res[1]) # Owner(rres[r][1])

\* C5: NewBundleSource called with a nil *Bundle is rejected at
\* construction: it does not return a BundleSource.
NewBundleSourceRejectsNil ==
  (newOutcome # "none" /\ newArg = NilPtr) => newOutcome # "returned"

\* C6: an Update called with a nil *Bundle ends in an error at the call
\* and is never accepted as a normal return.
UpdateRejectsNil ==
  \A w \in Writers :
    (wpc[w] = "returned" /\ warg[w] = NilPtr) => wres[w] # "ok"

\* C7: once NewBundleSource has returned, the slot holds a non-nil
\* pointer to a constructed Bundle.
SlotNeverEmpty ==
  newOutcome = "returned" => (bundle.typ = "*Bundle" /\ bundle.ptr \in Bundles)

\* C8: no call of StableBundle() or of an accessor ends in a fault.
ReadsNeverFault ==
  \A r \in Readers : rpc[r] # "panicked"

\* The optional sub-views, as the builder made them.
OptionalViewOf(a, b) ==
  CASE a = "OrdererConfig" -> IF HasOrderer(b) THEN <<"orderer", b>> ELSE NilView
    [] a = "ConsortiumsConfig" -> IF HasConsortiums(b) THEN <<"consortiums", b>> ELSE NilView
    [] a = "ApplicationConfig" -> IF HasApplication(b) THEN <<"application", b>> ELSE NilView
HasView(a, b) ==
  CASE a = "OrdererConfig" -> HasOrderer(b)
    [] a = "ConsortiumsConfig" -> HasConsortiums(b)
    [] a = "ApplicationConfig" -> HasApplication(b)
OptionalAccessors == {"OrdererConfig", "ConsortiumsConfig", "ApplicationConfig"}

\* C9: OrdererConfig(), ConsortiumsConfig() and ApplicationConfig() return
\* exists = TRUE exactly when the Bundle the call loaded has the sub-view,
\* with that Bundle's view; when the sub-view is absent they return
\* normally with exists = FALSE and a nil view.
OptionalViewCorrect ==
  \A r \in Readers :
    (rop[r] \in OptionalAccessors /\ rpc[r] \in {"done", "panicked"}) =>
      LET b == storeLog[rver[r]] IN
        b # NilPtr =>
          /\ rpc[r] = "done"
          /\ rres[r][2] = HasView(rop[r], b)
          /\ rres[r][1] = OptionalViewOf(rop[r], b)
          /\ ~HasView(rop[r], b) => rres[r][1] = NilView

\* OrdererConfig() returns normally from a Bundle without orderer view.
OrdererViewAbsent ==
  \E r \in Readers :
    /\ rpc[r] = "done" /\ rop[r] = "OrdererConfig"
    /\ ~HasOrderer(rh[r])
    /\ rres[r] = <<NilView, FALSE>>

\* No state is a deadlock, and a thread inside a call can take its next step.
NoCallWaits ==
  /\ ENABLED Next
  /\ \A w \in Writers : wpc[w] = "store" => ENABLED Update(w)
  /\ \A r \in Readers : rpc[r] = "called" => ENABLED Return(r)

\* Every started Update() and StableBundle() call completes.
CallsComplete ==
  /\ \A w \in Writers : (wpc[w] = "store") ~> (wpc[w] = "returned")
  /\ \A r \in Readers :
       (rpc[r] = "called" /\ rop[r] = "StableBundle") ~> HoldsHandle(r)

\* C10: no state is a deadlock, a call that has started can always
\* take its next step whatever the other threads are doing, and under weak
\* fairness every started Update() and StableBundle() call completes.
NonBlocking == []NoCallWaits /\ CallsComplete

\* A StableBundle() call and the Update() calls of all the writers are in
\* progress at once.
AllCallsInFlight ==
  /\ \A w \in Writers : wpc[w] = "store"
  /\ \E r \in Readers : rpc[r] = "called" /\ rop[r] = "StableBundle"

\* C11: when no store is applied while a call runs, StableBundle() returns
\* the pointer stored last before the call (the argument of NewBundleSource
\* right after construction, the argument of Update right after that
\* Update), and OrdererConfig() returns that Bundle's orderer view with its
\* exists flag, not the view of a Bundle held before.
ReadYourWrite ==
  \A r \in Readers :
    (/\ rpc[r] \in {"done", "panicked"}
     /\ rop[r] \in {"StableBundle", "OrdererConfig"}
     /\ rfloor[r] = rver[r]) =>
      LET b == storeLog[rfloor[r]] IN
        /\ rh[r] = b
        /\ HoldsHandle(r) => rres[r] = <<"handle", b>>
        /\ (rop[r] = "OrdererConfig" /\ b # NilPtr) =>
             /\ rpc[r] = "done"
             /\ rres[r] = <<OptionalViewOf("OrdererConfig", b), HasOrderer(b)>>

\* NewBundleSource(A) with an orderer view, Update(B) without one, then,
\* with no writer running, StableBundle() giving B and OrdererConfig()
\* giving exists = FALSE.
ReadYourWriteScenario ==
  /\ Len(storeLog) = 2
  /\ storeLog[1] \in Bundles /\ HasOrderer(storeLog[1])
  /\ storeLog[2] \in Bundles /\ ~HasOrderer(storeLog[2])
  /\ \A w \in Writers : wpc[w] # "store"
  /\ \E r \in Readers :
       /\ rpc[r] = "done" /\ rop[r] = "OrdererConfig"
       /\ rfloor[r] = 2 /\ rver[r] = 2
       /\ rres[r] = <<NilView, FALSE>>
       /\ rprev[r].op = "StableBundle"
       /\ rprev[r].res = <<"handle", storeLog[2]>>

\* C12: the slot only ever holds the argument of one of the stores, and
\* once every Update has completed, a StableBundle() call that starts
\* afterwards returns the argument of the Update whose store was applied
\* last.
LastWriterWins ==
  /\ newOutcome = "returned" => bundle.ptr \in Published
  /\ (\A w \in Writers : wpc[w] # "store") =>
       \A r \in Readers :
         (HoldsHandle(r) /\ rfloor[r] = Len(storeLog)) =>
           rres[r] = <<"handle", storeLog[Len(storeLog)]>>

\* Every writer has completed an Update, with different arguments, and a
\* StableBundle() call started afterwards has returned the argument of the
\* store applied last.
AllWritersDoneLastSeen ==
  /\ Len(storeLog) = NumWriters + 1
  /\ \A w \in Writers : wpc[w] = "returned"
  /\ \A w, x \in Writers : w # x => warg[w] # warg[x]
  /\ storeLog[Len(storeLog)] = warg[1]
  /\ \E r \in Readers :
       /\ HoldsHandle(r) /\ rfloor[r] = Len(storeLog)
       /\ rres[r] = <<"handle", warg[1]>>

\* The result an accessor computes from Bundle b alone.
ResultFrom(a, b) ==
  CASE a = "PolicyManager" -> << <<"policyManager", b>> >>
    [] a = "MSPManager" -> << <<"mspManager", b>> >>
    [] a = "ChannelConfig" -> << <<"channel", b>> >>
    [] a = "ConfigtxManager" -> << <<"configtxManager", b>> >>
    [] a \in OptionalAccessors -> <<OptionalViewOf(a, b), HasView(a, b)>>

\* C13: the whole result of an accessor call comes from one Bundle, the one
\* its single load found in the slot at an instant during the call: the
\* component is that Bundle's, and for the optional views the view and the
\* exists flag are both that Bundle's, also when a store is applied while
\* the call runs.
AccessorUsesOneLoad ==
  \A r \in Readers :
    AccessorDone(r) =>
      LET b == storeLog[rver[r]] IN
        /\ rfloor[r] <= rver[r] /\ rver[r] <= Len(storeLog)
        /\ rh[r] = b
        /\ rres[r] = ResultFrom(rop[r], b)

\* ConsortiumsConfig() returns the view of a Bundle that a store put in the
\* slot while the call ran, in place of a Bundle without that view.
AccessorDuringUpdate ==
  \E r \in Readers :
    /\ AccessorDone(r) /\ rop[r] = "ConsortiumsConfig"
    /\ rver[r] > rfloor[r]
    /\ storeLog[rfloor[r]] # NilPtr /\ ~HasConsortiums(storeLog[rfloor[r]])
    /\ rres[r] = << <<"consortiums", rh[r]>>, TRUE >>

\* C14: no step changes the contents of a Bundle, so every Bundle is, in
\* every state, as it was built; a step of a reader (StableBundle() or an
\* accessor) leaves the slot and the writers alone; the slot changes only
\* in the store of NewBundleSource or of an Update, which then holds that
\* call's argument, and an Update step leaves every reader's handle and
\* results as they were.
FrameOfOperations ==
  /\ [](heap = [b \in Bundles |-> BuildBundle(b)])
  /\ [][ /\ heap' = heap
         /\ readerVars' # readerVars =>
              UNCHANGED <<bundle, newArg, newOutcome, storeLog, writerVars>>
         /\ bundle' # bundle =>
              \/ newOutcome = "none" /\ bundle' = Iface(newArg')
              \/ \E w \in Writers :
                   /\ wpc[w] = "store" /\ wpc'[w] = "returned"
                   /\ bundle' = Iface(warg[w])
         /\ writerVars' # writerVars =>
              UNCHANGED <<heap, newArg, newOutcome, readerVars>> ]_vars

\* A reader still holds, and has read through, the handle of a Bundle that
\* an Update has since replaced in the slot; the Bundle is as it was built.
ReplacedBundleIntact ==
  \E r \in Readers :
    /\ HoldsHandle(r) /\ rh[r] # NilPtr
    /\ bundle.ptr # NilPtr /\ bundle.ptr # rh[r]
    /\ Len(storeLog) > rver[r]
    /\ rhread[r].acc = "ChannelConfig"
    /\ heap[rh[r]] = BuildBundle(rh[r])
    /\ heap[bundle.ptr] = BuildBundle(bundle.ptr)

\* C15: when one reader calls StableBundle() twice in sequence, the first
\* call returns the pointer of the store applied last when it loaded, the
\* second likewise, and the second call's store is the first call's store
\* or one applied after it, never an earlier one.
MonotonicReads ==
  \A r \in Readers :
    (HoldsHandle(r) /\ rprev[r].op = "StableBundle" /\ rprev[r].res # NoResult) =>
      /\ rprev[r].ver <= rver[r]
      /\ rprev[r].res = <<"handle", storeLog[rprev[r].ver]>>
      /\ rres[r] = <<"handle", storeLog[rver[r]]>>

\* Two StableBundle() calls of one reader with an Update applied between
\* their loads and another Update in flight: the second call returns the
\* later, different Bundle.
SecondReadIsLater ==
  \E r \in Readers :
    /\ HoldsHandle(r) /\ rprev[r].op = "StableBundle"
    /\ rprev[r].ver < rver[r]
    /\ rprev[r].res[2] # rres[r][2]
    /\ rres[r][2] = storeLog[rver[r]]
    /\ \E w \in Writers : wpc[w] = "store"

\* C16: the slot holds, after construction, exactly the argument of the
\* store applied last, whatever was stored before it; the store of an
\* Update leaves the slot with that Update's argument, and leaves it as it
\* was when it already held that argument; a call that loads after the
\* last store gets that store's argument.
NoHistory ==
  /\ [](newOutcome = "returned" => bundle = Iface(storeLog[Len(storeLog)]))
  /\ [](\A r \in Readers :
          (rpc[r] = "done" /\ rver[r] = Len(storeLog)) =>
            rh[r] = storeLog[Len(storeLog)])
  /\ [][\A w \in Writers :
          (wpc[w] = "store" /\ wpc'[w] = "returned") =>
            /\ bundle' = Iface(warg[w])
            /\ bundle = Iface(warg[w]) => bundle' = bundle]_vars

\* After Update(A); Update(B); Update(A) on a constructed source the slot
\* holds A, and StableBundle() called afterwards returns A.
UpdateABA ==
  /\ Len(storeLog) = 4
  /\ storeLog[2] \in Bundles
  /\ storeLog[3] # storeLog[2]
  /\ storeLog[4] = storeLog[2]
  /\ wpc[1] = "returned"
  /\ bundle = Iface(storeLog[2])
  /\ \E r \in Readers :
       /\ HoldsHandle(r) /\ rfloor[r] = 4
       /\ rres[r] = <<"handle", storeLog[2]>>

\* C17: NewBundleSource and Update store only values of type *Bundle, so
\* no store faults, the slot of a constructed source always holds a
\* *Bundle on which the type assertion succeeds, and StableBundle() returns
\* the stored pointer as its handle, the nil pointer included, without
\* faulting: only a later read through a nil handle faults.
StoredTypeInvariant ==
  /\ bundle.typ \in {"nil", "*Bundle"}
  /\ newOutcome # "panicked"
  /\ \A w \in Writers : wres[w] # "panicked"
  /\ newOutcome = "returned" => (bundle.typ = "*Bundle" /\ ~AssertFaults(Load))
  /\ \A r \in Readers :
       (rop[r] = "StableBundle" /\ rpc[r] \in {"done", "panicked"}) =>
         /\ rres[r] = <<"handle", storeLog[rver[r]]>>
         /\ rpc[r] = "panicked" => rres[r][2] = NilPtr

\* A nil *Bundle has been stored over a Bundle and StableBundle() has
\* returned the nil handle.
NilHandleReturned ==
  /\ Len(storeLog) > 1
  /\ storeLog[1] \in Bundles
  /\ bundle = Iface(NilPtr)
  /\ \E r \in Readers :
       /\ HoldsHandle(r) /\ rhread[r].acc = "none"
       /\ rres[r] = <<"handle", NilPtr>>

====
